---- MODULE Spec2Model ----
(***************************************************************************)
(* Model of grafsign (src/grafsign.ts): sign() builds a manifest of the    *)
(* files under dist/, posts it to the signing endpoint and saves the       *)
(* signed text as MANIFEST.txt.                                            *)
(*                                                                         *)
(* Paths are strings, as in the source.  The file system is a function     *)
(* from absolute path to node; a node carries the directory it lives in    *)
(* and its name (the fs.Dirent the walker sees), its kind, its bytes, the  *)
(* canonical path a symbolic link resolves to, and whether it can be read. *)
(***************************************************************************)
EXTENDS Integers, Sequences, FiniteSets, TLC

VARIABLES
  fs,        \* the file system: absolute path -> node
  pc,        \* where sign() stands: idle, building, signing, saving, done
  args,      \* the arguments of the running sign() call
  manifest,  \* buildManifest's / sign's local manifest object
  stack,     \* the nested walk() generators: frames [dir, todo]
  signed,    \* signManifest's return value held by sign()
  request,   \* the POST that signManifest sent in this run, if any
  status,    \* the status of the response received in this run, if any
  logged,    \* what sign()'s catch block passed to console.warn
  rejected,  \* whether the promise returned by sign() rejected
  before,    \* bytes of MANIFEST.txt when sign() was last called (at first: now)
  returned,  \* the manifest buildManifest returned in this run
  prevFiles  \* the files mapping buildManifest returned in the previous run

vars == <<fs, pc, args, manifest, stack, signed, request, status, logged,
          rejected, before, returned, prevFiles>>

(***************************************************************************)
(* Bounds of the model.                                                    *)
(***************************************************************************)
MaxEntries == 3   \* entries under dist/ besides plugin.json

(***************************************************************************)
(* Constants of the program and of its platform.                           *)
(***************************************************************************)
MANIFEST_FILE == "MANIFEST.txt"
HttpOk == 200
SIGN_URL == "https://grafana.com/api/plugins/ci/sign"
TOOL_VERSION == "eccentric"

\* path.resolve('dist') with the process started in /p
distContentDir == "/p/dist"

\* JavaScript's undefined, and the absence of a value in the model's own
\* bookkeeping variables.
UNDEFINED == "<undefined>"
None == "<none>"
\* The same absence for a variable that otherwise holds an object.
Absent == [absent |-> TRUE]

(***************************************************************************)
(* String and path helpers.                                                *)
(***************************************************************************)
\* String.prototype.startsWith
StartsWith(s, prefix) ==
  /\ Len(prefix) <= Len(s)
  /\ SubSeq(s, 1, Len(prefix)) = prefix

\* path.posix.join(dir, name) for a directory and an entry name
PosixJoin(dir, name) == dir \o "/" \o name

\* path.posix.relative(from, to) for a path `to` below `from` (the only
\* way walk() calls it: every entry is joined onto a directory below baseDir)
PosixRelative(from, to) ==
  IF StartsWith(to, from \o "/")
    THEN SubSeq(to, Len(from) + 2, Len(to))
    ELSE IF to = from THEN "" ELSE to

(***************************************************************************)
(* crypto.createHash('sha256').update(bytes).digest('hex') on the byte     *)
(* strings that occur in the model (the digests are the real ones).        *)
(***************************************************************************)
DescFull      == "{\"id\":\"my-panel\",\"info\":{\"version\":\"1.0.0\"}}"
DescNoVersion == "{\"id\":\"my-panel\",\"info\":{}}"
DescNoId      == "{\"info\":{\"version\":\"1.0.0\"}}"
DescNoInfo    == "{\"id\":\"my-panel\"}"
DescEmpty     == "{}"
DescGarbage   == "not json"

\* Faulty variant: the bytes are stored instead of their digest.
Sha256HexNoDigest(bytes) == bytes

Sha256Hex(bytes) ==
  CASE bytes = "hello"       -> "2cf24dba5fb0a30e26e83b2ac5b9e29e1b161e5c1fa7425e73043362938b9824"
    [] bytes = "world"       -> "486ea46224d1bb4fb680f34f7c9ad96a8f24ec88be73ea8e5a6c65260e9cb8a7"
    [] bytes = "x"           -> "2d711642b726b04401627ca9fbac32f5c8530fb1903cc4db02258717921a4881"
    [] bytes = "sig0"        -> "f3f15a23e43f1388ece45c2f00ba41bfd2920b2279d403707655f6153c114205"
    [] bytes = "signed-1"    -> "89979ac8326e805dc9ae22562b517e5abd3f4f5457e96f57561e085cf5462f8e"
    [] bytes = "signed-2"    -> "0b6fd247da4deea32b75de307847dcea92c99562ce00edfe1718fa54eabe227b"
    [] bytes = "root"        -> "4813494d137e1631bba301d5acab6e7bb7aa74ce1185d456565ef51d737677b2"
    [] bytes = "key"         -> "2c70e12b7a0646f92279f427c7b38e7334d8e5389cff167a1dc30e73f826b683"
    [] bytes = DescFull      -> "8b394a32989bade0d90bdc197bc58191353277dcbab169ea5b49d67acc118d53"
    [] bytes = DescNoVersion -> "dcb8a79240678b3d1c5ca40058776da03948bbbf3dd4811c5c73f194c0641ad4"
    [] bytes = DescNoId      -> "1fe69f5e3e5ba12f043a1574e41b1d532590fb11904bf4aeab763ec7515cc51c"
    [] bytes = DescNoInfo    -> "021a554e8e0a86e93436aa285adf3f0c460098bbb690d454967efe389c7d03f3"
    [] bytes = DescEmpty     -> "44136fa355b3678a1146ad16f7e8649e94fb4fc21fe77e8310c060f61caaff8a"
    [] bytes = DescGarbage   -> "7ccfa1fbf3940e6f0c0375d87c0f9235a50514e14cb427bdfaf5077987b26ccf"

(***************************************************************************)
(* JSON.parse on the descriptor texts of the model: ok is FALSE where it   *)
(* throws a SyntaxError, else value is the parsed object.                  *)
(***************************************************************************)
JsonParse(text) ==
  CASE text = DescFull ->
         [ok |-> TRUE, value |-> [id |-> "my-panel", info |-> [version |-> "1.0.0"]]]
    [] text = DescNoVersion ->
         [ok |-> TRUE, value |-> [id |-> "my-panel", info |-> <<>>]]
    [] text = DescNoId ->
         [ok |-> TRUE, value |-> [info |-> [version |-> "1.0.0"]]]
    [] text = DescNoInfo ->
         [ok |-> TRUE, value |-> [id |-> "my-panel"]]
    [] text = DescEmpty ->
         [ok |-> TRUE, value |-> <<>>]
    [] OTHER ->
         [ok |-> FALSE, value |-> <<>>]

\* obj[key] on a JavaScript object: undefined when the property is absent
Get(obj, key) == IF key \in DOMAIN obj THEN obj[key] ELSE UNDEFINED

(***************************************************************************)
(* The file system.                                                        *)
(***************************************************************************)
File(dir, name, bytes, readable) ==
  [dir |-> dir, name |-> name, kind |-> "file", bytes |-> bytes,
   target |-> None, readable |-> readable]
Directory(dir, name) ==
  [dir |-> dir, name |-> name, kind |-> "dir", bytes |-> None,
   target |-> None, readable |-> TRUE]
SymLink(dir, name, target) ==
  [dir |-> dir, name |-> name, kind |-> "link", bytes |-> None,
   target |-> target, readable |-> TRUE]
Fifo(dir, name) ==
  [dir |-> dir, name |-> name, kind |-> "other", bytes |-> None,
   target |-> None, readable |-> TRUE]

PathOf(n) == PosixJoin(n.dir, n.name)

\* Files outside dist/: always there.  /p/dist2 is a sibling of dist whose
\* name begins with "dist".
Outside ==
  { File("/etc", "passwd", "root", TRUE),
    File("/p/dist2", "k", "key", TRUE) }

\* The states plugin.json can be in (besides missing).
Descriptors ==
  { File(distContentDir, "plugin.json", DescFull, TRUE),
    File(distContentDir, "plugin.json", DescFull, FALSE),
    File(distContentDir, "plugin.json", DescNoVersion, TRUE),
    File(distContentDir, "plugin.json", DescNoId, TRUE),
    File(distContentDir, "plugin.json", DescNoInfo, TRUE),
    File(distContentDir, "plugin.json", DescEmpty, TRUE),
    File(distContentDir, "plugin.json", DescGarbage, TRUE) }

\* The other entries a content tree is drawn from.
Candidates ==
  { File(distContentDir, "module.js", "hello", TRUE),
    File(distContentDir, MANIFEST_FILE, "sig0", TRUE),
    File(distContentDir, "__proto__", "x", TRUE),
    File(distContentDir, "locked.bin", "x", FALSE),
    SymLink(distContentDir, "evil", "/etc/passwd"),
    SymLink(distContentDir, "sib", "/p/dist2/k"),
    SymLink(distContentDir, "in", "/p/dist/module.js"),
    SymLink(distContentDir, "mlink", "/p/dist/MANIFEST.txt"),
    SymLink(distContentDir, "ldir", "/p/dist/sub"),
    Fifo(distContentDir, "pipe"),
    Directory(distContentDir, "sub"),
    File("/p/dist/sub", "a.js", "world", TRUE),
    File("/p/dist/sub", MANIFEST_FILE, "sig0", TRUE),
    SymLink("/p/dist/sub", "evil", "/etc/passwd"),
    Directory("/p/dist/sub", "deep"),
    SymLink("/p/dist/sub/deep", "evil", "/etc/passwd") }

\* Every entry lives in dist/ or in a directory of the tree.
WellFormed(S) ==
  \A n \in S : \/ n.dir = distContentDir
               \/ \E d \in S : d.kind = "dir" /\ PathOf(d) = n.dir

RECURSIVE SetsUpTo(_)
SetsUpTo(k) ==
  IF k = 0 THEN {{}}
  ELSE LET prev == SetsUpTo(k - 1)
       IN  prev \cup {s \cup {c} : s \in prev, c \in Candidates}

Trees == {S \in SetsUpTo(MaxEntries) : WellFormed(S)}

MkFs(S) == [p \in {PathOf(n) : n \in S} |-> CHOOSE n \in S : PathOf(n) = p]

\* The names fs.opendir(dir) streams.
Names(f, dir) == {f[p].name : p \in {q \in DOMAIN f : f[q].dir = dir}}

\* fs.realpath(path): the canonical path, or a failure (ENOENT) when a
\* symbolic link's target does not exist.
RealPath(f, path) ==
  IF path \notin DOMAIN f THEN [ok |-> FALSE, path |-> None]
  ELSE IF f[path].kind = "link"
    THEN IF f[path].target \in DOMAIN f
           THEN [ok |-> TRUE, path |-> f[path].target]
           ELSE [ok |-> FALSE, path |-> None]
    ELSE [ok |-> TRUE, path |-> path]

\* readFileSync(path): follows a symbolic link; fails when the file is
\* missing, is no regular file or cannot be read.
ReadFileSync(f, path) ==
  LET r == RealPath(f, path) IN
  IF ~r.ok THEN [ok |-> FALSE, err |-> "ENOENT", bytes |-> None]
  ELSE IF f[r.path].kind # "file" THEN [ok |-> FALSE, err |-> "EISDIR", bytes |-> None]
  ELSE IF ~f[r.path].readable THEN [ok |-> FALSE, err |-> "EACCES", bytes |-> None]
  ELSE [ok |-> TRUE, err |-> None, bytes |-> f[r.path].bytes]

\* writeFileSync(path.join(dir, name), text)
WriteFileSync(f, dir, name, text) ==
  LET p == PosixJoin(dir, name) IN
  [q \in DOMAIN f \cup {p} |-> IF q = p THEN File(dir, name, text, TRUE) ELSE f[q]]

(***************************************************************************)
(* buildManifest                                                           *)
(***************************************************************************)
\* obj[key] = value on an object literal {}: the key "__proto__" names the
\* prototype accessor, whose setter ignores a string, so no property is made.
SetProperty(obj, key, value) ==
  IF key = "__proto__" THEN obj
  ELSE [k \in DOMAIN obj \cup {key} |-> IF k = key THEN value ELSE obj[k]]

\* Faulty variant: the reserved name is not recognised.
IsManifestFileNever(p) == FALSE

\* p === MANIFEST_FILE
IsManifestFile(p) == p = MANIFEST_FILE

\* Lines 79-85: read and parse plugin.json, start the manifest.
BuildManifestHead(f, dir) ==
  LET r == ReadFileSync(f, PosixJoin(dir, "plugin.json")) IN
  IF ~r.ok THEN [ok |-> FALSE, err |-> r.err, manifest |-> Absent]
  ELSE LET pluginJson == JsonParse(r.bytes) IN
    IF ~pluginJson.ok THEN [ok |-> FALSE, err |-> "SyntaxError", manifest |-> Absent]
    \* pluginJson.info.version throws a TypeError when info is undefined
    ELSE IF "info" \notin DOMAIN pluginJson.value
      THEN [ok |-> FALSE, err |-> "TypeError", manifest |-> Absent]
      ELSE [ok |-> TRUE, err |-> None,
            manifest |-> [plugin |-> Get(pluginJson.value, "id"),
                          version |-> Get(pluginJson.value.info, "version"),
                          files |-> <<>>]]

\* Lines 88-95: the body of the for-await loop for one yielded path.
\* (The compiled variant of the loop first replaces path.sep by "/" in the
\* key; with POSIX paths, as here, that leaves the key as it is.)
LoopBody(f, dir, m, p) ==
  IF IsManifestFile(p) THEN [ok |-> TRUE, err |-> None, manifest |-> m]
  ELSE LET r == ReadFileSync(f, PosixJoin(dir, p)) IN
    IF ~r.ok THEN [ok |-> FALSE, err |-> r.err, manifest |-> Absent]
    ELSE [ok |-> TRUE, err |-> None,
          manifest |-> [m EXCEPT !.files = SetProperty(@, p, Sha256Hex(r.bytes))]]

(***************************************************************************)
(* walk: what one directory entry makes the generator do.                  *)
(*   "recurse": yield* walk(entry, baseDir)                                *)
(*   "yield":   yield the entry's path relative to baseDir                 *)
(*   "throw":   the generator throws                                       *)
(*   "skip":    nothing, the loop goes on                                  *)
(***************************************************************************)
\* Faulty variant: the stats.isFile() test is missing.
WalkLinkNoStat(f, entry, baseDir) ==
  LET realPath == RealPath(f, entry) IN
  IF ~realPath.ok THEN [do |-> "throw", err |-> "ENOENT", path |-> None]
  ELSE IF ~StartsWith(realPath.path, baseDir)
    THEN [do |-> "throw", err |-> "EscapeError", path |-> None]
  ELSE [do |-> "yield", err |-> None, path |-> PosixRelative(baseDir, entry)]

WalkLink(f, entry, baseDir) ==
  LET realPath == RealPath(f, entry) IN
  IF ~realPath.ok THEN [do |-> "throw", err |-> "ENOENT", path |-> None]
  ELSE IF ~StartsWith(realPath.path, baseDir)
    THEN [do |-> "throw", err |-> "EscapeError", path |-> None]
  ELSE IF f[realPath.path].kind = "file"
    THEN [do |-> "yield", err |-> None, path |-> PosixRelative(baseDir, entry)]
  ELSE [do |-> "skip", err |-> None, path |-> None]

WalkEntry(f, dir, name, baseDir) ==
  LET entry == PosixJoin(dir, name) IN
  CASE f[entry].kind = "dir"  -> [do |-> "recurse", err |-> None, path |-> entry]
    [] f[entry].kind = "file" ->
         [do |-> "yield", err |-> None, path |-> PosixRelative(baseDir, entry)]
    [] f[entry].kind = "link" -> WalkLink(f, entry, baseDir)
    [] OTHER                  -> [do |-> "skip", err |-> None, path |-> None]

(***************************************************************************)
(* signManifest                                                            *)
(***************************************************************************)
\* !v for a value that is a string or undefined
Falsy(v) == v = UNDEFINED \/ v = ""

\* a ?? b
NullishCoalesce(a, b) == IF a = UNDEFINED THEN b ELSE a

\* Line 105: the guard that throws when no credential is configured.
NoCredential(apiKey, policyToken) == Falsy(apiKey) /\ Falsy(policyToken)

\* Line 115
Token(apiKey, policyToken) == NullishCoalesce(policyToken, apiKey)

\* JSON.stringify(manifest): a property whose value is undefined is left out.
\* (Only plugin and version can be undefined: sign() adds the others when set.)
JsonStringify(m) ==
  [k \in {j \in DOMAIN m : ~(j \in {"plugin", "version"} /\ m[j] = UNDEFINED)} |-> m[k]]

\* Faulty variant: any response counts as a success.
ResponseOkAny(st) == st # 0

\* Line 126: response.status !== 200 throws.
ResponseOk(st) == st = HttpOk

EnvValues == {UNDEFINED, "", "secret"}

\* What fetch() comes back with: a response, or a transport failure.
Responses ==
  { [failed |-> FALSE, status |-> HttpOk, text |-> "signed-1"],
    [failed |-> FALSE, status |-> HttpOk, text |-> "signed-2"],
    [failed |-> FALSE, status |-> 500, text |-> "oops"],
    [failed |-> TRUE, status |-> 0, text |-> None] }

(***************************************************************************)
(* sign                                                                    *)
(***************************************************************************)
\* Faulty variant: a file-system error is logged and thrown again.
SignCatchRethrow(err) ==
  [pc |-> "done", logged |-> err, rejected |-> err \in {"EACCES", "ENOENT", "EISDIR"}]

\* Lines 45-47: the catch block logs the error; sign() then returns.
SignCatch(err) == [pc |-> "done", logged |-> err, rejected |-> FALSE]

\* An error thrown inside the try block of sign().
Throw(err) ==
  LET c == SignCatch(err) IN
  /\ pc' = c.pc
  /\ logged' = c.logged
  /\ rejected' = c.rejected
  /\ manifest' = Absent
  /\ stack' = <<>>
  /\ signed' = None

SignatureTypes == {UNDEFINED, "private"}
\* rootUrls is optional: <<>> when the argument is left out, else <<the array>>
RootUrlss == {<<>>, << <<"https://example.com">> >>}

ManifestBytes(f) ==
  LET p == PosixJoin(distContentDir, MANIFEST_FILE) IN
  IF p \in DOMAIN f /\ f[p].kind = "file" THEN f[p].bytes ELSE None

\* sign(signatureType, rootUrls) is called; buildManifest reads plugin.json
\* and opens dist/ for the walk.
Sign(signatureType, rootUrls) ==
  /\ pc \in {"idle", "done"}
  /\ args' = [signatureType |-> signatureType, rootUrls |-> rootUrls]
  /\ before' = ManifestBytes(fs)
  /\ prevFiles' = IF returned = Absent THEN Absent ELSE returned.files
  /\ returned' = Absent
  /\ request' = Absent
  /\ status' = 0
  /\ LET h == BuildManifestHead(fs, distContentDir) IN
     IF h.ok
       THEN /\ manifest' = h.manifest
            /\ stack' = <<[dir |-> distContentDir, todo |-> Names(fs, distContentDir)]>>
            /\ pc' = "building"
            /\ logged' = None
            /\ rejected' = FALSE
            /\ signed' = None
       ELSE Throw(h.err)
  /\ UNCHANGED fs

Top == stack[Len(stack)]
Rest(name) == [stack EXCEPT ![Len(stack)].todo = @ \ {name}]

\* The walk reaches a directory: yield* walk(entry, baseDir).
WalkDirectory ==
  /\ pc = "building" /\ stack # <<>>
  /\ \E name \in Top.todo :
       LET w == WalkEntry(fs, Top.dir, name, distContentDir) IN
       /\ w.do = "recurse"
       /\ stack' = Append(Rest(name), [dir |-> w.path, todo |-> Names(fs, w.path)])
  /\ UNCHANGED <<fs, pc, args, manifest, signed, request, status, logged,
                 rejected, before, returned, prevFiles>>

\* The walk yields a path and buildManifest's loop body runs on it.
WalkYield ==
  /\ pc = "building" /\ stack # <<>>
  /\ \E name \in Top.todo :
       LET w == WalkEntry(fs, Top.dir, name, distContentDir) IN
       /\ w.do = "yield"
       /\ LET b == LoopBody(fs, distContentDir, manifest, w.path) IN
          IF b.ok
            THEN /\ manifest' = b.manifest
                 /\ stack' = Rest(name)
                 /\ UNCHANGED <<pc, signed, logged, rejected>>
            ELSE Throw(b.err)
  /\ UNCHANGED <<fs, args, request, status, before, returned, prevFiles>>

\* The walk throws on a symbolic link.
WalkThrow ==
  /\ pc = "building" /\ stack # <<>>
  /\ \E name \in Top.todo :
       LET w == WalkEntry(fs, Top.dir, name, distContentDir) IN
       /\ w.do = "throw"
       /\ Throw(w.err)
  /\ UNCHANGED <<fs, args, request, status, before, returned, prevFiles>>

\* The walk passes over an entry.
WalkSkip ==
  /\ pc = "building" /\ stack # <<>>
  /\ \E name \in Top.todo :
       LET w == WalkEntry(fs, Top.dir, name, distContentDir) IN
       /\ w.do = "skip"
       /\ stack' = Rest(name)
  /\ UNCHANGED <<fs, pc, args, manifest, signed, request, status, logged,
                 rejected, before, returned, prevFiles>>

\* A nested walk() has streamed its whole directory and returns.
WalkReturn ==
  /\ pc = "building" /\ stack # <<>>
  /\ Top.todo = {}
  /\ stack' = SubSeq(stack, 1, Len(stack) - 1)
  /\ UNCHANGED <<fs, pc, args, manifest, signed, request, status, logged,
                 rejected, before, returned, prevFiles>>

\* Lines 31-38: a truthy argument is merged in, then the tool's tag.
Merge(m, a) ==
  [signPlugin |-> [version |-> TOOL_VERSION]] @@
  (IF Falsy(a.signatureType) THEN <<>> ELSE [signatureType |-> a.signatureType]) @@
  (IF a.rootUrls = <<>> THEN <<>> ELSE [rootUrls |-> a.rootUrls[1]]) @@
  m

\* buildManifest returns; sign() merges its arguments into the manifest.
BuildReturn ==
  /\ pc = "building" /\ stack = <<>>
  /\ returned' = manifest
  /\ manifest' = Merge(manifest, args)
  /\ pc' = "signing"
  /\ UNCHANGED <<fs, args, stack, signed, request, status, logged, rejected,
                 before, prevFiles>>

\* signManifest runs with the environment it finds and the answer it gets.
SignManifest(apiKey, policyToken, response) ==
  /\ pc = "signing"
  /\ IF NoCredential(apiKey, policyToken)
       THEN /\ Throw("CredentialError")
            /\ UNCHANGED <<request, status>>
       ELSE /\ request' = [url |-> SIGN_URL, method |-> "POST",
                           authorization |-> "Bearer " \o Token(apiKey, policyToken),
                           token |-> Token(apiKey, policyToken),
                           body |-> JsonStringify(manifest)]
            /\ status' = IF response.failed THEN 0 ELSE response.status
            /\ IF ~response.failed /\ ResponseOk(response.status)
                 THEN /\ signed' = response.text
                      /\ pc' = "saving"
                      /\ UNCHANGED <<manifest, stack, logged, rejected>>
                 ELSE Throw("SigningError")
  /\ UNCHANGED <<fs, args, before, returned, prevFiles>>

\* saveManifest writes MANIFEST.txt, or the write fails.
SaveManifest(writable) ==
  /\ pc = "saving"
  /\ IF writable
       THEN /\ fs' = WriteFileSync(fs, distContentDir, MANIFEST_FILE, signed)
            /\ pc' = "done"
            /\ UNCHANGED <<manifest, stack, signed, logged, rejected>>
       ELSE /\ Throw("EACCES")
            /\ UNCHANGED fs
  /\ UNCHANGED <<args, request, status, before, returned, prevFiles>>

Init ==
  /\ \E d \in {{}} \cup {{n} : n \in Descriptors} :
       \E t \in Trees : fs = MkFs(Outside \cup d \cup t)
  /\ pc = "idle"
  /\ args = Absent
  /\ manifest = Absent
  /\ stack = <<>>
  /\ signed = None
  /\ request = Absent
  /\ status = 0
  /\ logged = None
  /\ rejected = FALSE
  /\ before = ManifestBytes(fs)
  /\ returned = Absent
  /\ prevFiles = Absent

Next ==
  \/ \E s \in SignatureTypes, r \in RootUrlss : Sign(s, r)
  \/ WalkDirectory
  \/ WalkYield
  \/ WalkThrow
  \/ WalkSkip
  \/ WalkReturn
  \/ BuildReturn
  \/ \E k \in EnvValues, t \in EnvValues, resp \in Responses : SignManifest(k, t, resp)
  \/ \E w \in BOOLEAN : SaveManifest(w)

Spec == Init /\ [][Next]_vars

(***************************************************************************)
(* Vocabulary of the properties.                                           *)
(***************************************************************************)
\* p lies inside the directory base.
Inside(p, base) == p = base \/ StartsWith(p, base \o "/")

\* The entries of the content tree.
Tree(f) == {p \in DOMAIN f : Inside(p, distContentDir) /\ p # distContentDir}

\* The root-relative path of an entry, with forward slashes.
RelKey(p) == SubSeq(p, Len(distContentDir) + 2, Len(p))

Links(f) == {p \in Tree(f) : f[p].kind = "link"}

\* Symbolic links that resolve to something outside the content root.
EscapingLinks(f) ==
  {p \in Links(f) : f[p].target \in DOMAIN f /\ ~Inside(f[p].target, distContentDir)}

\* Symbolic links that cannot be resolved.
DanglingLinks(f) == {p \in Links(f) : f[p].target \notin DOMAIN f}

\* Symbolic links that resolve, inside the content root, to something that
\* is no regular file.
NonFileLinks(f) ==
  {p \in Links(f) : /\ f[p].target \in DOMAIN f
                    /\ Inside(f[p].target, distContentDir)
                    /\ f[f[p].target].kind # "file"}

\* buildManifest has returned a manifest in the current run of sign().
Built == returned # Absent

ManifestPath == PosixJoin(distContentDir, MANIFEST_FILE)

(***************************************************************************)
(* C1: a symbolic link whose canonical target lies outside the content     *)
(* root makes the build fail: while the tree holds such a link,            *)
(* buildManifest returns no manifest (and so nothing is signed or saved).  *)
(***************************************************************************)
C1_EscapingLinkFailsBuild ==
  EscapingLinks(fs) # {} => ~Built /\ pc \notin {"signing", "saving"}

(***************************************************************************)
(* C2: MANIFEST.txt changes only in a run in which signManifest got a 200  *)
(* response, and then holds the response body; in a run that logged a      *)
(* failure of the build or of the signing, MANIFEST.txt is as it was when  *)
(* the run started (absent, or with its prior bytes).                      *)
(***************************************************************************)
C2_SavedOnlyAfter200 ==
  /\ ManifestBytes(fs) # before =>
        /\ pc = "done" /\ logged = None
        /\ status = HttpOk
        /\ ManifestBytes(fs) = signed
  /\ logged # None => ManifestBytes(fs) = before

\* Scenario C: the collaborator answered 500 and the MANIFEST.txt of an
\* earlier run is still in place.
C2_Witness ==
  /\ pc = "done" /\ logged = "SigningError" /\ status = 500
  /\ before = "sig0" /\ ManifestBytes(fs) = "sig0"

(***************************************************************************)
(* C3: sign never rejects: an error of any stage is logged by the catch    *)
(* block and the call completes.                                           *)
(***************************************************************************)
C3_SignNeverRejects ==
  /\ ~rejected
  /\ logged # None => pc = "done"

\* saveManifest failed after a 200 response, and the error was logged.
C3_Witness ==
  pc = "done" /\ logged = "EACCES" /\ status = HttpOk /\ ~rejected

(***************************************************************************)
(* C4: MANIFEST.txt is never a key of files, neither while the manifest is *)
(* built nor in the manifest buildManifest returns, also when the file     *)
(* exists at the root from an earlier successful run.                      *)
(***************************************************************************)
C4_NoSelfReference ==
  /\ Built => MANIFEST_FILE \notin DOMAIN returned.files
  /\ pc = "building" => MANIFEST_FILE \notin DOMAIN manifest.files

\* A manifest was built over a root that holds the MANIFEST.txt saved by
\* the run before.
C4_Witness ==
  /\ Built /\ prevFiles # Absent
  /\ before \in {"signed-1", "signed-2"}
  /\ ManifestPath \in DOMAIN fs

(***************************************************************************)
(* C5: over a tree of directories and regular files only, the files        *)
(* mapping has exactly one entry per file, keyed by the file's             *)
(* root-relative path and valued with the SHA-256 hex digest of its bytes. *)
(* The file MANIFEST.txt at the root is left out of the count here, as C4  *)
(* requires, so a tree that violates this statement has no MANIFEST.txt    *)
(* entry to blame.                                                         *)
(***************************************************************************)
RegularOnly(f) == \A p \in Tree(f) : f[p].kind \in {"file", "dir"}

ListedFiles(f) == {p \in Tree(f) : f[p].kind = "file" /\ p # ManifestPath}

ExpectedFiles(f) ==
  [k \in {RelKey(p) : p \in ListedFiles(f)} |->
     Sha256Hex(f[PosixJoin(distContentDir, k)].bytes)]

C5_OneEntryPerFile ==
  (Built /\ RegularOnly(fs)) => returned.files = ExpectedFiles(fs)

(***************************************************************************)
(* C6: buildManifest returns no manifest whose plugin or version is        *)
(* undefined: it fails when plugin.json lacks id, info or info.version.    *)
(***************************************************************************)
C6_DescriptorFieldsRequired ==
  Built => returned.plugin # UNDEFINED /\ returned.version # UNDEFINED

(***************************************************************************)
(* C7: building the manifest again yields the same files mapping as the    *)
(* build of the run before (between two runs the tree changes only by the  *)
(* MANIFEST.txt a successful sign wrote).                                  *)
(***************************************************************************)
C7_RebuildIsIdentical ==
  (Built /\ prevFiles # Absent) => returned.files = prevFiles

(***************************************************************************)
(* C8, as stated: in scenario A (plugin.json with id my-panel and version  *)
(* 1.0.0, module.js holding "hello") the manifest has those identity       *)
(* fields and module.js is the only entry of files.                        *)
(***************************************************************************)
ScenarioA(f) ==
  /\ Tree(f) = {PosixJoin(distContentDir, "plugin.json"),
                PosixJoin(distContentDir, "module.js")}
  /\ f[PosixJoin(distContentDir, "plugin.json")] =
       File(distContentDir, "plugin.json", DescFull, TRUE)
  /\ f[PosixJoin(distContentDir, "module.js")] =
       File(distContentDir, "module.js", "hello", TRUE)

HelloDigest == "2cf24dba5fb0a30e26e83b2ac5b9e29e1b161e5c1fa7425e73043362938b9824"
DescFullDigest == "8b394a32989bade0d90bdc197bc58191353277dcbab169ea5b49d67acc118d53"

C8_ScenarioA_OnlyModule ==
  (Built /\ ScenarioA(fs)) =>
     /\ returned.plugin = "my-panel"
     /\ returned.version = "1.0.0"
     /\ returned.files = [k \in {"module.js"} |-> HelloDigest]

(***************************************************************************)
(* C8, amended: in scenario A the manifest has plugin my-panel, version    *)
(* 1.0.0 and exactly two entries in files: module.js with the digest of    *)
(* "hello" and plugin.json with the digest of the descriptor's own bytes.  *)
(***************************************************************************)
C8_ScenarioA_WithDescriptor ==
  (Built /\ ScenarioA(fs)) =>
     /\ returned.plugin = "my-panel"
     /\ returned.version = "1.0.0"
     /\ DOMAIN returned.files = {"module.js", "plugin.json"}
     /\ returned.files["module.js"] = HelloDigest
     /\ returned.files["plugin.json"] = DescFullDigest

C8_Witness == Built /\ ScenarioA(fs) /\ pc = "signing"

(***************************************************************************)
(* C9, as stated: a symbolic link that does not resolve to a regular file  *)
(* (a directory inside the root, or no target at all) is passed over: the  *)
(* walk neither yields it, nor recurses, nor fails.                        *)
(***************************************************************************)
WalkOf(f, p) == WalkEntry(f, f[p].dir, f[p].name, distContentDir)

\* No key of the mapping is the entry p or lies below it.
NotListed(files, p) ==
  \A k \in DOMAIN files : k # RelKey(p) /\ ~StartsWith(k, RelKey(p) \o "/")

C9_NonFileLinkOmitted ==
  \A p \in NonFileLinks(fs) \cup DanglingLinks(fs) : WalkOf(fs, p).do = "skip"

(***************************************************************************)
(* C9, amended: a symbolic link that resolves, inside the root, to         *)
(* something that is no regular file is passed over: the walk neither      *)
(* yields it nor recurses through it nor fails on it, and no key of a      *)
(* built manifest is the link or lies below it.  A symbolic link that      *)
(* cannot be resolved makes the walk throw, and the build returns no       *)
(* manifest.                                                               *)
(***************************************************************************)
C9_DirLinkOmitted_DanglingFails ==
  /\ \A p \in NonFileLinks(fs) :
       /\ WalkOf(fs, p).do = "skip"
       /\ Built => NotListed(returned.files, p)
       /\ logged # "EISDIR"
  /\ \A p \in DanglingLinks(fs) :
       /\ WalkOf(fs, p).do = "throw"
       /\ ~Built

\* A manifest was built over a tree with a link to a directory that has a
\* file in it: the file is listed under the directory, not under the link.
C9_Witness ==
  /\ Built
  /\ \E p \in NonFileLinks(fs) :
       \E k \in DOMAIN returned.files : StartsWith(k, RelKey(fs[p].target) \o "/")

(***************************************************************************)
(* C10: whenever signManifest sends the request, the bearer token is a     *)
(* non-empty credential.                                                   *)
(***************************************************************************)
C10_TokenNonEmpty ==
  request # Absent =>
    /\ request.token \notin {"", UNDEFINED}
    /\ request.authorization # "Bearer "

====
